---------------------------- MODULE Spec2Model ----------------------------
(***************************************************************************)
(* A model of src-tauri/src/lib.rs, the native backend of ChitChat:        *)
(*   - process-based game detection (process_names, detect_running_game),  *)
(*   - the remote-control input dispatcher (apply_remote_control_input),   *)
(*   - the tray / window controller (set_tray_badge and the callbacks       *)
(*     registered in run()).                                                *)
(* Rust Strings are TLA+ strings; TLC evaluates Len, \o, Head, Tail and    *)
(* SubSeq on them, so the string conversions of the code are computed      *)
(* character by character.                                                 *)
(***************************************************************************)
EXTENDS Integers, Sequences, FiniteSets, TLC

VARIABLES
    target_os,   \* the cfg(target_os) the crate was built for
    os_lines,    \* the lines the OS process-listing command prints now
    detection,   \* the detect_running_game call in flight / just returned
    monitor,     \* what AppHandle::primary_monitor() returns now
    input,       \* the apply_remote_control_input call just returned
    running,     \* the application process is alive
    window,      \* the "main" webview window
    tray,        \* the tray icon with id "main"
    badge,       \* the count of the last set_tray_badge call (-1: none yet)
    ev,          \* the last GUI event or command handled
    before       \* window, running and tray as they were before that event

vars == <<target_os, os_lines, detection, monitor, input, running, window, tray,
          badge, ev, before>>

detectVars == <<target_os, os_lines, detection>>
inputVars == <<monitor, input>>
trayVars == <<running, window, tray, badge, ev, before>>

(***************************************************************************)
(* Bounds of the model.                                                    *)
(***************************************************************************)
MaxLines == 2

(***************************************************************************)
(* String helpers: the std operations the code calls.                      *)
(***************************************************************************)
CharAt(s, i) == SubSeq(s, i, i)

UpperAscii == "ABCDEFGHIJKLMNOPQRSTUVWXYZ"
LowerAscii == "abcdefghijklmnopqrstuvwxyz"

\* char::to_lowercase on the characters the model uses (ASCII).
LowerChar(c) ==
    IF \E i \in 1..Len(UpperAscii) : CharAt(UpperAscii, i) = c
    THEN CharAt(LowerAscii, CHOOSE i \in 1..Len(UpperAscii) : CharAt(UpperAscii, i) = c)
    ELSE c

RECURSIVE to_lowercase(_)
to_lowercase(s) ==
    IF s = "" THEN "" ELSE LowerChar(Head(s)) \o to_lowercase(Tail(s))

IsWhitespace(c) == c \in {" ", "\t", "\r", "\n"}

RECURSIVE trim_start(_)
trim_start(s) ==
    IF s # "" /\ IsWhitespace(Head(s)) THEN trim_start(Tail(s)) ELSE s

RECURSIVE trim_end(_)
trim_end(s) ==
    IF s # "" /\ IsWhitespace(CharAt(s, Len(s)))
    THEN trim_end(SubSeq(s, 1, Len(s) - 1))
    ELSE s

\* str::trim
trim(s) == trim_end(trim_start(s))

\* The index of the first occurrence of pat in s at or after i; 0 when none.
RECURSIVE find_from(_, _, _)
find_from(s, pat, i) ==
    IF i + Len(pat) - 1 > Len(s) THEN 0
    ELSE IF SubSeq(s, i, i + Len(pat) - 1) = pat THEN i
    ELSE find_from(s, pat, i + 1)

\* str::contains
contains(s, pat) == find_from(s, pat, 1) # 0

\* str::lines: split at "\n", dropping the "\n" and a "\r" right before it;
\* the final line ending is optional.
RECURSIVE lines(_)
lines(text) ==
    IF text = "" THEN <<>>
    ELSE LET nl == find_from(text, "\n", 1)
         IN  IF nl = 0 THEN <<text>>
             ELSE LET raw == SubSeq(text, 1, nl - 1)
                      line == IF raw # "" /\ CharAt(raw, Len(raw)) = "\r"
                              THEN SubSeq(raw, 1, Len(raw) - 1)
                              ELSE raw
                  IN  <<line>> \o lines(SubSeq(text, nl + 1, Len(text)))

\* trimmed.strip_prefix('"').and_then(|rest| rest.split("\",").next())
\*        .unwrap_or(trimmed)
first_field(trimmed) ==
    IF trimmed # "" /\ Head(trimmed) = "\""
    THEN LET rest == Tail(trimmed)
             cut == find_from(rest, "\",", 1)
         IN  IF cut = 0 THEN rest ELSE SubSeq(rest, 1, cut - 1)
    ELSE trimmed

(***************************************************************************)
(* Game detection.                                                         *)
(***************************************************************************)
None == [kind |-> "none"]
Known(game, executable) == [kind |-> "known", game |-> game, executable |-> executable]

game_process_catalog ==
    << <<"haloinfinite.exe", "Halo Infinite">>,
       <<"mcc-win64-shipping.exe", "Halo: The Master Chief Collection">>,
       <<"cs2.exe", "Counter-Strike 2">>,
       <<"valorant-win64-shipping.exe", "VALORANT">>,
       <<"fortniteclient-win64-shipping.exe", "Fortnite">>,
       <<"r5apex.exe", "Apex Legends">>,
       <<"overwatch.exe", "Overwatch 2">>,
       <<"cod.exe", "Call of Duty">>,
       <<"eldenring.exe", "Elden Ring">>,
       <<"eldenring", "Elden Ring">>,
       <<"dota2.exe", "Dota 2">>,
       <<"dota2", "Dota 2">>,
       <<"league of legends.exe", "League of Legends">>,
       <<"rocketleague.exe", "Rocket League">>,
       <<"gta5.exe", "Grand Theft Auto V">>,
       <<"minecraft.exe", "Minecraft">>,
       <<"rustclient.exe", "Rust">>,
       <<"pubg-win64-shipping.exe", "PUBG: Battlegrounds">>,
       <<"rainbowsix.exe", "Rainbow Six Siege">>,
       <<"rainbowsix_vulkan.exe", "Rainbow Six Siege">>,
       <<"destiny2.exe", "Destiny 2">>,
       <<"wow.exe", "World of Warcraft">>,
       <<"ffxiv_dx11.exe", "Final Fantasy XIV">>,
       <<"osu!.exe", "osu!">> >>

\* The build targets: the tasklist block, the ps block (linux, macos), and a
\* target for which neither block is compiled.
TargetOs == {"windows", "linux", "macos", "android"}

\* How running the command can end: Command::output() fails, the command
\* exits with a failure status, or it exits successfully.
CommandOutcomes == {"spawn_error", "exit_failure", "success"}

\* Lines the process-listing command can print: plain `ps` names, padded and
\* mixed-case names, tasklist CSV rows, blank lines, and names that only
\* contain a catalog name.
LinePool ==
    { "EldenRing.exe", "eldenring", "  cs2.exe ", "xcs2.exe", "bash", "",
      "\"Dota2.exe\",\"42\"", "\"eldenring\",\"7\"", "\"cs2.exe\"", " \t" }

\* The command's stdout: each line followed by the platform's line ending.
RECURSIVE Stdout(_, _)
Stdout(ls, eol) ==
    IF ls = <<>> THEN "" ELSE Head(ls) \o eol \o Stdout(Tail(ls), eol)

LineEnding(os) == IF os = "windows" THEN "\r\n" ELSE "\n"

\* The tasklist loop of process_names (lines 62-74).
RECURSIVE windows_names(_)
windows_names(ls) ==
    IF ls = <<>> THEN <<>>
    ELSE LET trimmed == trim(Head(ls))
         IN  IF trimmed = "" THEN windows_names(Tail(ls))
             ELSE <<to_lowercase(first_field(trimmed))>> \o windows_names(Tail(ls))

\* The ps iterator chain of process_names (lines 85-89).
RECURSIVE posix_names(_)
posix_names(ls) ==
    IF ls = <<>> THEN <<>>
    ELSE LET line == to_lowercase(trim(Head(ls)))
         IN  IF line = "" THEN posix_names(Tail(ls))
             ELSE <<line>> \o posix_names(Tail(ls))

\* `if let Ok(output) = output { if output.status.success() {`; the faulty variant
\* tests only that the command could be invoked.
CommandIgnoresStatus(outcome) == outcome # "spawn_error"
CommandSucceeded(outcome) == outcome = "success"

process_names(os, outcome, text) ==
    IF os = "windows" /\ CommandSucceeded(outcome) THEN windows_names(lines(text))
    ELSE IF os \in {"linux", "macos"} /\ CommandSucceeded(outcome) THEN posix_names(lines(text))
    ELSE <<>>

\* `name == process_name` of line 106; the faulty variant matches by containment.
NameContains(name, process_name) == contains(name, process_name)
NameMatches(name, process_name) == name = process_name

\* The for loop over the catalog (lines 105-112), from entry i on.
RECURSIVE scan_catalog(_, _)
scan_catalog(names, i) ==
    IF i > Len(game_process_catalog) THEN None
    ELSE LET process_name == game_process_catalog[i][1]
             game_title == game_process_catalog[i][2]
         IN  IF \E j \in 1..Len(names) : NameMatches(names[j], process_name)
             THEN Known(game_title, process_name)
             ELSE scan_catalog(names, i + 1)

detect_running_game(names) ==
    IF names = <<>> THEN None ELSE scan_catalog(names, 1)

Idle == [pc |-> "idle"]

\* The process list changes: a line appears at the end of the listing.
ProcessStarts ==
    /\ detection = Idle
    /\ Len(os_lines) < MaxLines
    /\ \E l \in LinePool : os_lines' = Append(os_lines, l)
    /\ UNCHANGED <<target_os, detection, inputVars, trayVars>>

\* The process list changes: a line disappears from the listing.
ProcessExits ==
    /\ detection = Idle
    /\ \E i \in 1..Len(os_lines) :
           os_lines' = SubSeq(os_lines, 1, i - 1) \o SubSeq(os_lines, i + 1, Len(os_lines))
    /\ UNCHANGED <<target_os, detection, inputVars, trayVars>>

\* The command detect_running_game, invoked by the UI: one snapshot, one scan.
DetectRunningGame ==
    /\ detection = Idle
    /\ \E outcome \in CommandOutcomes :
           LET text == IF outcome = "spawn_error" THEN ""
                       ELSE Stdout(os_lines, LineEnding(target_os))
               names == process_names(target_os, outcome, text)
           IN  detection' = [pc |-> "returned", outcome |-> outcome,
                             names |-> names, result |-> detect_running_game(names)]
    /\ UNCHANGED <<target_os, os_lines, inputVars, trayVars>>

\* The result is serialized to the caller and dropped; nothing is retained.
DetectionDelivered ==
    /\ detection # Idle
    /\ detection' = Idle
    /\ UNCHANGED <<target_os, os_lines, inputVars, trayVars>>

DetectInit ==
    /\ target_os \in TargetOs
    /\ os_lines = <<>>
    /\ detection = Idle

DetectNext == ProcessStarts \/ ProcessExits \/ DetectRunningGame \/ DetectionDelivered

(***************************************************************************)
(* Remote-control input injection.                                         *)
(*                                                                         *)
(* f64 payloads are modelled as exact fractions: xNorm and yNorm are       *)
(* numerators over NormDen (a power of two), deltaY is an integer.  On     *)
(* these values the f64 products and quotients of the code round to the    *)
(* same integers as the exact fractions.  Every value of the model is far  *)
(* inside the i32 range, where `as i32` and the i32 addition are exact.    *)
(***************************************************************************)
NormBits == 1
NormDen == 2 ^ NormBits
MaxDim == 3
MaxOrigin == 1
MaxWheelTicks == 16
WheelGrain == 10

Abs(v) == IF v < 0 THEN -v ELSE v

\* f64::round of the fraction p / q (q > 0): to the nearest integer, ties
\* away from zero; and the faulty variant, the truncation of a bare `as i32`.
F64Trunc(p, q) ==
    IF p >= 0 THEN p \div q ELSE -((-p) \div q)
F64Round(p, q) ==
    IF p >= 0 THEN (2 * p + q) \div (2 * q) ELSE -((2 * (-p) + q) \div (2 * q))

\* f64::clamp(0.0, 1.0) of the numerator n over NormDen; and the faulty variant,
\* which clamps at the low end only.
ClampLowOnly(n) == IF n < 0 THEN 0 ELSE n
Clamp01(n) == IF n < 0 THEN 0 ELSE IF n > NormDen THEN NormDen ELSE n

\* u32::saturating_sub(1)
SaturatingSub1(v) == IF v = 0 THEN 0 ELSE v - 1

\* position + (norm.clamp(0.0, 1.0) * max).round() as i32   (lines 186-189)
ScreenCoordinate(origin, dimension, norm) ==
    origin + F64Round(Clamp01(norm) * SaturatingSub1(dimension), NormDen)

\* (delta_y / 60.0).round() as i32   (line 209)
WheelSteps(delta_y) == F64Round(delta_y, 60)

to_mouse_button_default_left(name) ==
    CASE name = "right" -> [some |-> TRUE, button |-> "Right"]
      [] name = "middle" -> [some |-> TRUE, button |-> "Middle"]
      [] OTHER -> [some |-> TRUE, button |-> "Left"]
to_mouse_button_no_middle(name) ==
    CASE name = "left" -> [some |-> TRUE, button |-> "Left"]
      [] name = "right" -> [some |-> TRUE, button |-> "Right"]
      [] OTHER -> [some |-> FALSE]
to_mouse_button(name) ==
    CASE name = "left" -> [some |-> TRUE, button |-> "Left"]
      [] name = "right" -> [some |-> TRUE, button |-> "Right"]
      [] name = "middle" -> [some |-> TRUE, button |-> "Middle"]
      [] OTHER -> [some |-> FALSE]

\* enigo::Key values: a native key code, or Key::Unicode(char).
NativeKey(code) == [variant |-> code]
Unicode(ch) == [variant |-> "Unicode", ch |-> ch]

\* The faulty variant takes the first character of any non-empty name.
to_key_first_char(name) ==
    CASE name = "Enter" -> NativeKey("Return")
      [] name = "Escape" -> NativeKey("Escape")
      [] name = "Backspace" -> NativeKey("Backspace")
      [] name = "Tab" -> NativeKey("Tab")
      [] name = "Space" \/ name = " " -> NativeKey("Space")
      [] name = "ArrowUp" -> NativeKey("UpArrow")
      [] name = "ArrowDown" -> NativeKey("DownArrow")
      [] name = "ArrowLeft" -> NativeKey("LeftArrow")
      [] name = "ArrowRight" -> NativeKey("RightArrow")
      [] OTHER -> IF Len(name) >= 1 THEN Unicode(Head(name)) ELSE Unicode(" ")
to_key(name) ==
    CASE name = "Enter" -> NativeKey("Return")
      [] name = "Escape" -> NativeKey("Escape")
      [] name = "Backspace" -> NativeKey("Backspace")
      [] name = "Tab" -> NativeKey("Tab")
      [] name = "Space" \/ name = " " -> NativeKey("Space")
      [] name = "ArrowUp" -> NativeKey("UpArrow")
      [] name = "ArrowDown" -> NativeKey("DownArrow")
      [] name = "ArrowLeft" -> NativeKey("LeftArrow")
      [] name = "ArrowRight" -> NativeKey("RightArrow")
      [] OTHER -> IF Len(name) = 1 THEN Unicode(Head(name)) ELSE Unicode(" ")

\* Result<(), String>
Ok == [ok |-> TRUE]
Err(msg) == [ok |-> FALSE, error |-> msg]

\* One call on the Enigo handle followed by `.map_err(|e| e.to_string())?`:
\* the call is made, and its failure ends the command with the error string.
NativeCall(call, native) ==
    [calls |-> <<call>>, ret |-> IF native = "ok" THEN Ok ELSE Err("enigo: input failed")]

NoCall(ret) == [calls |-> <<>>, ret |-> ret]

\* The body of apply_remote_control_input: enigo_new and native are how
\* Enigo::new and the one native call end, mon is what primary_monitor() gives.
apply_remote_control_input(event, enigo_new, mon, native) ==
    IF enigo_new # "ok" THEN NoCall(Err("enigo: connection failed"))
    ELSE CASE event.type = "pointer_move" ->
                IF mon.kind = "err" THEN NoCall(Err("tauri: monitor query failed"))
                ELSE IF mon.kind = "none" THEN NoCall(Err("No primary monitor available"))
                ELSE NativeCall([op |-> "move_mouse",
                                 x |-> ScreenCoordinate(mon.position.x, mon.size.width, event.xNorm),
                                 y |-> ScreenCoordinate(mon.position.y, mon.size.height, event.yNorm),
                                 coordinate |-> "Abs"], native)
           [] event.type = "pointer_down" ->
                LET btn == to_mouse_button(event.button)
                IN  IF btn.some
                    THEN NativeCall([op |-> "button", button |-> btn.button,
                                     direction |-> "Press"], native)
                    ELSE NoCall(Ok)
           [] event.type = "pointer_up" ->
                LET btn == to_mouse_button(event.button)
                IN  IF btn.some
                    THEN NativeCall([op |-> "button", button |-> btn.button,
                                     direction |-> "Release"], native)
                    ELSE NoCall(Ok)
           [] event.type = "wheel" ->
                LET steps == WheelSteps(event.deltaY)
                IN  IF steps # 0
                    THEN NativeCall([op |-> "scroll", length |-> steps,
                                     axis |-> "Vertical"], native)
                    ELSE NoCall(Ok)
           [] event.type = "key_down" ->
                NativeCall([op |-> "key", key |-> to_key(event.key),
                            direction |-> "Press"], native)
           [] event.type = "key_up" ->
                NativeCall([op |-> "key", key |-> to_key(event.key),
                            direction |-> "Release"], native)

\* The payloads the model draws from.
Norms == -1 .. (NormDen + 1)
ButtonNames == {"left", "right", "middle", "Left", "back", ""}
WheelDeltas == { k * WheelGrain : k \in -MaxWheelTicks .. MaxWheelTicks }
KeyNames == {"Enter", "Escape", "Backspace", "Tab", "Space", "ArrowUp", "ArrowDown",
             "ArrowLeft", "ArrowRight", " ", "a", "A", "1", "", "F1", "Shift", "enter"}

RemoteControlInputEvent ==
    [type : {"pointer_move"}, xNorm : Norms, yNorm : Norms]
      \cup [type : {"pointer_down", "pointer_up"}, button : ButtonNames]
      \cup [type : {"wheel"}, deltaY : WheelDeltas]
      \cup [type : {"key_down", "key_up"}, key : KeyNames]

\* What primary_monitor() can return: an error, no monitor, or a monitor.
Monitors ==
    {[kind |-> "err"], [kind |-> "none"]}
      \cup [kind : {"some"},
            position : [x : -MaxOrigin .. MaxOrigin, y : -MaxOrigin .. MaxOrigin],
            size : [width : 0 .. MaxDim, height : 0 .. MaxDim]]

\* The display configuration changes.
MonitorChanges ==
    /\ input = Idle
    /\ \E m \in Monitors : m # monitor /\ monitor' = m
    /\ UNCHANGED <<input, detectVars, trayVars>>

\* The command apply_remote_control_input, invoked by the UI with one event.
ApplyRemoteControlInput ==
    /\ input = Idle
    /\ \E event \in RemoteControlInputEvent, enigo_new \in {"ok", "err"}, native \in {"ok", "err"} :
           LET r == apply_remote_control_input(event, enigo_new, monitor, native)
           IN  input' = [pc |-> "returned", event |-> event, enigo_new |-> enigo_new,
                         native |-> IF r.calls = <<>> THEN "unused" ELSE native,
                         calls |-> r.calls, ret |-> r.ret]
    /\ UNCHANGED <<monitor, detectVars, trayVars>>

\* The Result is returned to the caller; the Enigo handle is dropped.
InputReturned ==
    /\ input # Idle
    /\ input' = Idle
    /\ UNCHANGED <<monitor, detectVars, trayVars>>

InputInit ==
    /\ monitor = [kind |-> "some", position |-> [x |-> 0, y |-> 0],
                  size |-> [width |-> MaxDim, height |-> MaxDim]]
    /\ input = Idle

InputNext == MonitorChanges \/ ApplyRemoteControlInput \/ InputReturned

(***************************************************************************)
(* Tray and window controller.  The state starts where setup() has         *)
(* returned: the tray icon "main" is built with the tooltip "ChitChat" and *)
(* the "main" window created by the framework is showing.                  *)
(***************************************************************************)
MaxBadge == 12

Digits == "0123456789"

\* Display of a u32 inside format!: its decimal digits.
RECURSIVE Decimal(_)
Decimal(n) ==
    IF n < 10 THEN CharAt(Digits, n + 1)
    ELSE Decimal(n \div 10) \o CharAt(Digits, (n % 10) + 1)

\* The tooltip of set_tray_badge (lines 234-238); the faulty variant tests count > 1.
BadgeTooltipAboveOne(count) ==
    IF count > 1 THEN "ChitChat (" \o Decimal(count) \o " unread)" ELSE "ChitChat"
BadgeTooltip(count) ==
    IF count > 0 THEN "ChitChat (" \o Decimal(count) \o " unread)" ELSE "ChitChat"

\* set_tray_badge on the tray found by tray_by_id("main").
set_tray_badge(t, count) ==
    IF t.exists THEN [t EXCEPT !.tooltip = BadgeTooltip(count)] ELSE t

\* `if let Some(win) = app.get_webview_window("main") { win.show(); win.set_focus(); }`
ShowAndFocus(win) ==
    IF win.exists THEN [win EXCEPT !.visible = TRUE, !.focused = TRUE] ELSE win

\* window.hide(): a hidden window holds no focus.
Hide(win) == [win EXCEPT !.visible = FALSE, !.focused = FALSE]

MenuIds == {"show", "quit", "about"}

\* on_menu_event (lines 266-277): the window and the running flag it leaves.
on_menu_event(win, id) ==
    CASE id = "quit" -> [window |-> win, running |-> FALSE]
      [] id = "show" -> [window |-> ShowAndFocus(win), running |-> TRUE]
      [] OTHER -> [window |-> win, running |-> TRUE]

TrayIconEvents ==
    [kind : {"Click", "DoubleClick"}, button : {"Left", "Right", "Middle"},
     button_state : {"Up", "Down"}]
      \cup [kind : {"Enter", "Move", "Leave"}]

\* The pattern of on_tray_icon_event (lines 279-283); the faulty variant drops the
\* button_state field of the pattern.
IsAnyLeftClick(e) == e.kind = "Click" /\ e.button = "Left"
IsLeftClickUp(e) == e.kind = "Click" /\ e.button = "Left" /\ e.button_state = "Up"

on_tray_icon_event(win, e) == IF IsLeftClickUp(e) THEN ShowAndFocus(win) ELSE win

\* on_window_event (lines 295-300): the window it leaves and whether the
\* close was prevented; the faulty variant hides without api.prevent_close().
on_window_event_no_prevent(win, e) ==
    IF e = "CloseRequested" THEN [window |-> Hide(win), prevent_close |-> FALSE]
    ELSE [window |-> win, prevent_close |-> FALSE]
on_window_event(win, e) ==
    IF e = "CloseRequested" THEN [window |-> Hide(win), prevent_close |-> TRUE]
    ELSE [window |-> win, prevent_close |-> FALSE]

Snapshot == [window |-> window, running |-> running, tray |-> tray]

\* A menu item of the tray menu is chosen.
MenuEvent ==
    /\ running /\ tray.exists
    /\ \E id \in MenuIds :
           LET r == on_menu_event(window, id)
           IN  /\ window' = r.window
               /\ running' = r.running
               /\ ev' = [kind |-> "menu", id |-> id]
    /\ before' = Snapshot
    /\ UNCHANGED <<tray, badge, detectVars, inputVars>>

\* The tray icon receives a mouse event.
TrayIconEvent ==
    /\ running /\ tray.exists
    /\ \E e \in TrayIconEvents :
           /\ window' = on_tray_icon_event(window, e)
           /\ ev' = [kind |-> "tray", event |-> e]
    /\ before' = Snapshot
    /\ UNCHANGED <<running, tray, badge, detectVars, inputVars>>

\* A second instance is launched: the single-instance callback (lines 246-251).
SecondInstance ==
    /\ running
    /\ window' = ShowAndFocus(window)
    /\ ev' = [kind |-> "second_instance"]
    /\ before' = Snapshot
    /\ UNCHANGED <<running, tray, badge, detectVars, inputVars>>

\* The window is asked to close.  A close that the handler does not prevent
\* destroys the window, and the framework exits once its last window is gone.
CloseRequested ==
    /\ running /\ window.exists
    /\ LET r == on_window_event(window, "CloseRequested")
       IN  IF r.prevent_close
           THEN window' = r.window /\ running' = running
           ELSE window' = [exists |-> FALSE, visible |-> FALSE, focused |-> FALSE]
                /\ running' = FALSE
    /\ ev' = [kind |-> "close_requested"]
    /\ before' = Snapshot
    /\ UNCHANGED <<tray, badge, detectVars, inputVars>>

\* Another application takes the focus: WindowEvent::Focused(false), which
\* the handler ignores.
FocusLost ==
    /\ running /\ window.exists /\ window.focused
    /\ window' = [on_window_event(window, "Focused").window EXCEPT !.focused = FALSE]
    /\ ev' = [kind |-> "focus_lost"]
    /\ before' = Snapshot
    /\ UNCHANGED <<running, tray, badge, detectVars, inputVars>>

\* The command set_tray_badge, invoked by the UI with the unread count.
SetTrayBadge ==
    /\ running
    /\ \E count \in 0 .. MaxBadge :
           /\ tray' = set_tray_badge(tray, count)
           /\ badge' = count
           /\ ev' = [kind |-> "set_tray_badge", count |-> count]
    /\ before' = Snapshot
    /\ UNCHANGED <<running, window, detectVars, inputVars>>

TrayInit ==
    /\ running = TRUE
    /\ window = [exists |-> TRUE, visible |-> TRUE, focused |-> TRUE]
    /\ tray = [exists |-> TRUE, tooltip |-> "ChitChat"]
    /\ badge = -1
    /\ ev = [kind |-> "setup"]
    /\ before = [window |-> window, running |-> running, tray |-> tray]

TrayNext ==
    MenuEvent \/ TrayIconEvent \/ SecondInstance \/ CloseRequested \/ FocusLost \/ SetTrayBadge

(***************************************************************************)
(* The specifications: one per component; the components share no state.  *)
(***************************************************************************)
Init == DetectInit /\ InputInit /\ TrayInit

\* Only detection reads target_os; the other two are checked on one target.
SpecDetect == Init /\ [][DetectNext]_vars
InitOneTarget == Init /\ target_os = "linux"
SpecInput == InitOneTarget /\ [][InputNext]_vars
SpecTray == InitOneTarget /\ [][TrayNext]_vars

Next == DetectNext \/ InputNext \/ TrayNext
Spec == Init /\ [][Next]_vars

(***************************************************************************)
(* Claims about game detection.                                            *)
(***************************************************************************)
\* The catalog entries some name of the snapshot equals.
CatalogHits(names) ==
    { i \in 1..Len(game_process_catalog) :
          \E j \in 1..Len(names) : names[j] = game_process_catalog[i][1] }

\* C1: for a non-empty snapshot, detect_running_game returns Known{game,
\* executable} of the first catalog entry, in declaration order, whose
\* executable name equals a snapshot name, and None when no catalog name
\* equals a snapshot name (containing a catalog name is not enough).
C1_FirstExactCatalogMatch ==
    (detection.pc = "returned" /\ detection.names # <<>>) =>
        LET hits == CatalogHits(detection.names)
        IN  IF hits = {} THEN detection.result = None
            ELSE LET first == CHOOSE i \in hits : \A k \in hits : i <= k
                 IN  detection.result = [kind |-> "known",
                                         game |-> game_process_catalog[first][2],
                                         executable |-> game_process_catalog[first][1]]

\* Both aliases of Elden Ring are in the snapshot; the entry declared first won.
C1_Witness ==
    /\ detection.pc = "returned"
    /\ \E j \in 1..Len(detection.names) : detection.names[j] = "eldenring"
    /\ \E j \in 1..Len(detection.names) : detection.names[j] = "eldenring.exe"
    /\ detection.result = [kind |-> "known", game |-> "Elden Ring",
                           executable |-> "eldenring.exe"]

\* C2: when the command cannot be invoked or exits unsuccessfully,
\* process_names returns the empty sequence; for an empty snapshot the result
\* is None; the result is always None or Known, never an error.
C2_FailureIsNoDetection ==
    detection.pc = "returned" =>
        /\ detection.outcome # "success" => detection.names = <<>>
        /\ detection.names = <<>> => detection.result = [kind |-> "none"]
        /\ detection.result.kind \in {"none", "known"}

\* The command exited with a failure status while a catalog game was listed.
C2_Witness ==
    /\ detection.pc = "returned"
    /\ detection.outcome = "exit_failure"
    /\ target_os \in {"windows", "linux", "macos"}
    /\ \E j \in 1..Len(os_lines) : os_lines[j] = "eldenring"
    /\ detection.names = <<>>
    /\ detection.result = [kind |-> "none"]
(***************************************************************************)
(* Claims about input injection.                                           *)
(***************************************************************************)
\* The integer nearest to p / q (q > 0), a tie going to the one farther from
\* zero, found by comparing distances.
Nearest(p, q, bound) ==
    CHOOSE s \in -bound .. bound :
        \A t \in -bound .. bound :
            \/ Abs(p - q * s) < Abs(p - q * t)
            \/ Abs(p - q * s) = Abs(p - q * t) /\ Abs(s) >= Abs(t)

WheelBound == (MaxWheelTicks * WheelGrain) \div 60 + 1

RecognizedButtons == {"left", "right", "middle"}

IsPointerButton(e) == e.type \in {"pointer_down", "pointer_up"}
IsKey(e) == e.type \in {"key_down", "key_up"}

\* The native operation each event variant stands for.
OperationOf(type) ==
    CASE type = "pointer_move" -> "move_mouse"
      [] type \in {"pointer_down", "pointer_up"} -> "button"
      [] type = "wheel" -> "scroll"
      [] type \in {"key_down", "key_up"} -> "key"

\* C3 as stated: every call performs exactly one native action of the kind
\* of its event, and returns an error when the native layer fails.
C3_ExactlyOneNativeAction ==
    input.pc = "returned" =>
        /\ Len(input.calls) = 1
        /\ input.calls[1].op = OperationOf(input.event.type)
        /\ input.native = "err" => ~input.ret.ok

\* The calls that reach no native action: the Enigo handle cannot be
\* created, a pointer move finds no primary monitor, a button name is not
\* recognized, or a wheel delta rounds to zero steps.
ReachesNoNativeAction ==
    \/ input.enigo_new # "ok"
    \/ input.event.type = "pointer_move" /\ monitor.kind # "some"
    \/ IsPointerButton(input.event) /\ input.event.button \notin RecognizedButtons
    \/ input.event.type = "wheel" /\ 2 * Abs(input.event.deltaY) < 60

\* C3 (amended): every call makes at most one native call, of the kind of its
\* event; it makes none exactly when the handle cannot be created, a pointer
\* move finds no primary monitor, the button name is not recognized or the
\* wheel delta rounds to zero; it returns an error exactly when the handle or
\* the monitor is unavailable or the native call fails.
C3_AtMostOneNativeAction ==
    input.pc = "returned" =>
        /\ Len(input.calls) <= 1
        /\ (input.calls = <<>>) <=> ReachesNoNativeAction
        /\ input.calls # <<>> => input.calls[1].op = OperationOf(input.event.type)
        /\ ~input.ret.ok <=>
              \/ input.enigo_new # "ok"
              \/ input.event.type = "pointer_move" /\ monitor.kind # "some"
              \/ input.native = "err"

\* A key press reached the native layer, which failed: one call, an error.
C3_Witness ==
    /\ input.pc = "returned"
    /\ input.event.type = "key_down"
    /\ Len(input.calls) = 1
    /\ input.native = "err"
    /\ ~input.ret.ok

\* The coordinate of the claim: origin + round(clamp(norm, 0, 1) * span).
ClaimCoordinate(origin, span, norm) ==
    LET clamped == IF norm < 0 THEN 0 ELSE IF norm > NormDen THEN NormDen ELSE norm
    IN  origin + Nearest(clamped * span, NormDen, MaxDim + 1)

\* C4 as stated: a pointer move goes to px + round(clamp(xNorm) * (w - 1)),
\* py + round(clamp(yNorm) * (h - 1)).
C4_MoveScalesBySizeMinusOne ==
    (input.pc = "returned" /\ input.event.type = "pointer_move" /\ input.calls # <<>>) =>
        /\ input.calls[1].x =
              ClaimCoordinate(monitor.position.x, monitor.size.width - 1, input.event.xNorm)
        /\ input.calls[1].y =
              ClaimCoordinate(monitor.position.y, monitor.size.height - 1, input.event.yNorm)

\* C4 (amended): with the Enigo handle created and a primary monitor at
\* (px, py) of size (w, h), a pointer move makes the one absolute move to
\* px + round(clamp(xNorm) * max(w - 1, 0)), py + round(clamp(yNorm) *
\* max(h - 1, 0)); so 0 maps to the origin, 1 to origin + size - 1 for a size
\* of at least 1, and values outside [0, 1] map as 0 and 1 do.
C4_MoveScalesBySaturatedSize ==
    (input.pc = "returned" /\ input.event.type = "pointer_move"
        /\ input.enigo_new = "ok" /\ monitor.kind = "some") =>
        LET spanX == IF monitor.size.width >= 1 THEN monitor.size.width - 1 ELSE 0
            spanY == IF monitor.size.height >= 1 THEN monitor.size.height - 1 ELSE 0
        IN  /\ input.calls =
                  << [op |-> "move_mouse",
                      x |-> ClaimCoordinate(monitor.position.x, spanX, input.event.xNorm),
                      y |-> ClaimCoordinate(monitor.position.y, spanY, input.event.yNorm),
                      coordinate |-> "Abs"] >>
            /\ (input.event.xNorm <= 0 /\ input.event.yNorm <= 0) =>
                  /\ input.calls[1].x = monitor.position.x
                  /\ input.calls[1].y = monitor.position.y
            /\ (input.event.xNorm >= NormDen /\ input.event.yNorm >= NormDen
                  /\ monitor.size.width >= 1 /\ monitor.size.height >= 1) =>
                  /\ input.calls[1].x = monitor.position.x + monitor.size.width - 1
                  /\ input.calls[1].y = monitor.position.y + monitor.size.height - 1

\* A move to (1, 1) of a monitor whose origin is not (0, 0) lands on its
\* bottom-right pixel.
C4_Witness ==
    /\ input.pc = "returned"
    /\ input.event.type = "pointer_move"
    /\ input.event.xNorm = NormDen /\ input.event.yNorm = NormDen
    /\ monitor.kind = "some"
    /\ monitor.position = [x |-> -1, y |-> 1]
    /\ monitor.size = [width |-> 3, height |-> 2]
    /\ input.calls # <<>>
    /\ input.calls[1].x = 1 /\ input.calls[1].y = 2

\* C5 as stated: the steps are deltaY / 60 rounded to the nearest integer; a
\* non-zero result issues one vertical scroll of that many steps, a zero
\* result performs no native action and returns success.
C5_WheelRoundsOrSucceedsIdle ==
    (input.pc = "returned" /\ input.event.type = "wheel") =>
        LET steps == Nearest(input.event.deltaY, 60, WheelBound)
        IN  IF steps # 0
            THEN input.calls = << [op |-> "scroll", length |-> steps, axis |-> "Vertical"] >>
            ELSE input.calls = <<>> /\ input.ret.ok

\* C5 (amended): once the Enigo handle is created, the steps are deltaY / 60
\* rounded to the nearest integer (ties away from zero); a non-zero result
\* issues one vertical scroll of that many steps, a zero result performs no
\* native action and returns success.  When the handle cannot be created the
\* call performs no native action and returns an error, whatever deltaY is.
C5_WheelRoundsWithHandle ==
    (input.pc = "returned" /\ input.event.type = "wheel") =>
        LET steps == Nearest(input.event.deltaY, 60, WheelBound)
        IN  IF input.enigo_new # "ok" THEN input.calls = <<>> /\ ~input.ret.ok
            ELSE IF steps # 0
            THEN input.calls = << [op |-> "scroll", length |-> steps, axis |-> "Vertical"] >>
            ELSE input.calls = <<>> /\ input.ret.ok

\* deltaY = 150 scrolls 3 steps.
C5_Witness ==
    /\ input.pc = "returned"
    /\ input.event.type = "wheel"
    /\ input.event.deltaY = 150
    /\ input.calls = << [op |-> "scroll", length |-> 3, axis |-> "Vertical"] >>

NativeButton == [left |-> "Left", right |-> "Right", middle |-> "Middle"]
DirectionOf(type) ==
    IF type \in {"pointer_down", "key_down"} THEN "Press" ELSE "Release"

\* C6 as stated: "left", "right" and "middle" press (PointerDown) or release
\* (PointerUp) the native button; any other name performs no native action
\* and is not an error.
C6_UnknownButtonNeverAnError ==
    (input.pc = "returned" /\ IsPointerButton(input.event)) =>
        IF input.event.button \in RecognizedButtons
        THEN input.calls = << [op |-> "button", button |-> NativeButton[input.event.button],
                               direction |-> DirectionOf(input.event.type)] >>
        ELSE input.calls = <<>> /\ input.ret.ok

\* C6 (amended): once the Enigo handle is created, "left", "right" and
\* "middle" press or release the native button of that name, and any other
\* name performs no native action and returns success.  When the handle
\* cannot be created the call returns an error for every button name.
C6_ButtonsWithHandle ==
    (input.pc = "returned" /\ IsPointerButton(input.event)) =>
        IF input.enigo_new # "ok" THEN input.calls = <<>> /\ ~input.ret.ok
        ELSE IF input.event.button \in RecognizedButtons
        THEN input.calls = << [op |-> "button", button |-> NativeButton[input.event.button],
                               direction |-> DirectionOf(input.event.type)] >>
        ELSE input.calls = <<>> /\ input.ret.ok

\* The middle button is released.
C6_Witness ==
    /\ input.pc = "returned"
    /\ input.event = [type |-> "pointer_up", button |-> "middle"]
    /\ input.calls = << [op |-> "button", button |-> "Middle", direction |-> "Release"] >>

NamedKeys ==
    [Enter |-> "Return", Escape |-> "Escape", Backspace |-> "Backspace", Tab |-> "Tab",
     Space |-> "Space", ArrowUp |-> "UpArrow", ArrowDown |-> "DownArrow",
     ArrowLeft |-> "LeftArrow", ArrowRight |-> "RightArrow"]

\* The key of the claim: a named key's code, else the single character, else
\* the space character.
ClaimKey(name) ==
    IF name \in DOMAIN NamedKeys THEN [variant |-> NamedKeys[name]]
    ELSE IF Len(name) = 1 THEN [variant |-> "Unicode", ch |-> name]
    ELSE [variant |-> "Unicode", ch |-> " "]

\* C7 as stated: the nine names map to native key codes, every other name of
\* one character is sent as that character, every other name as the space
\* character; KeyDown and KeyUp of a name act on the same key.
C7_OnlyNamedKeysAreNative ==
    (input.pc = "returned" /\ IsKey(input.event) /\ input.calls # <<>>) =>
        input.calls[1] = [op |-> "key", key |-> ClaimKey(input.event.key),
                          direction |-> DirectionOf(input.event.type)]

\* C7 (amended): as stated, except that the one-character name " " is also
\* mapped to the native Space key code, not sent as a literal character; the
\* key is sent for every call whose Enigo handle is created.
C7_SpaceCharacterIsNativeSpace ==
    (input.pc = "returned" /\ IsKey(input.event)) =>
        LET key == IF input.event.key = " " THEN [variant |-> "Space"]
                   ELSE ClaimKey(input.event.key)
        IN  IF input.enigo_new # "ok" THEN input.calls = <<>>
            ELSE input.calls = << [op |-> "key", key |-> key,
                                   direction |-> DirectionOf(input.event.type)] >>

\* The name " " is released as the native Space key.
C7_Witness ==
    /\ input.pc = "returned"
    /\ input.event = [type |-> "key_up", key |-> " "]
    /\ input.calls = << [op |-> "key", key |-> [variant |-> "Space"],
                         direction |-> "Release"] >>

(***************************************************************************)
(* Claims about the tray and the window.                                   *)
(***************************************************************************)
\* C8: a close request hides the window and prevents the close, so the
\* application keeps running with its window; it has terminated only after
\* a menu event with id "quit".
C8_CloseHidesAndOnlyQuitExits ==
    /\ ev.kind = "close_requested" =>
          running /\ window.exists /\ ~window.visible
    /\ ~running => ev = [kind |-> "menu", id |-> "quit"]
    /\ window.exists

\* A showing window was asked to close: it is hidden, the application runs.
C8_Witness ==
    /\ ev.kind = "close_requested"
    /\ before.window.visible
    /\ ~window.visible
    /\ running

\* C9: the tooltip is "ChitChat" when the last set_tray_badge count is 0 (or
\* there was no call), and "ChitChat (N unread)" when it is N > 0, whatever
\* came before; the call changes nothing but the tooltip.
C9_TooltipFollowsLastCount ==
    /\ tray.exists =>
          tray.tooltip = IF badge > 0 THEN "ChitChat (" \o ToString(badge) \o " unread)"
                         ELSE "ChitChat"
    /\ ev.kind = "set_tray_badge" =>
          /\ badge = ev.count
          /\ window = before.window
          /\ running = before.running
          /\ tray.exists = before.tray.exists

\* The count 5 replaced the tooltip of the count 10.
C9_Witness ==
    /\ ev = [kind |-> "set_tray_badge", count |-> 5]
    /\ before.tray.tooltip = "ChitChat (10 unread)"
    /\ tray.tooltip = "ChitChat (5 unread)"

IsShowEvent(e) ==
    \/ e = [kind |-> "menu", id |-> "show"]
    \/ e = [kind |-> "tray",
            event |-> [kind |-> "Click", button |-> "Left", button_state |-> "Up"]]
    \/ e = [kind |-> "second_instance"]

\* C10: the window is either visible or hidden; the "show" menu item, a
\* left-button release on the tray icon and a second instance each leave it
\* visible and focused (and a hidden window can take each of them); every
\* other tray event and every menu id but "show" and "quit" leave the
\* visibility and the running state as they were.
C10_ShowEventsRestoreWindow ==
    /\ window.visible \in BOOLEAN
    /\ IsShowEvent(ev) => window.visible /\ window.focused /\ running
    /\ (running /\ ~window.visible) =>
          /\ ENABLED (SecondInstance /\ window'.visible)
          /\ ENABLED (MenuEvent /\ window'.visible)
          /\ ENABLED (TrayIconEvent /\ window'.visible)
    /\ ((ev.kind = "tray" \/ (ev.kind = "menu" /\ ev.id # "quit")) /\ ~IsShowEvent(ev)) =>
          /\ window.visible = before.window.visible
          /\ running = before.running

\* A hidden window was restored by a left-button release on the tray icon.
C10_Witness ==
    /\ ev = [kind |-> "tray",
             event |-> [kind |-> "Click", button |-> "Left", button_state |-> "Up"]]
    /\ ~before.window.visible
    /\ window.visible /\ window.focused
=============================================================================
